---- MODULE Spec2Model ----
(***************************************************************************)
(* Model of the GameRoom durable object of src/src/game-room.ts: the hex   *)
(* geometry, the seeded map generator, the A* path finder, the navigation  *)
(* engine and the room's session handling (player and viewer sockets, the  *)
(* alarm-driven tick and the broadcasts).                                  *)
(***************************************************************************)
EXTENDS Integers, Sequences, FiniteSets, TLC

(***************************************************************************)
(* Bounds of the model.                                                    *)
(***************************************************************************)
\* Radius of the generated hex field (the room passes 10; the checks run on
\* a smaller field of the same shape, except the unending runs, which use the
\* room's own radius).
MapRadius == 3
\* Number of inputs (upgrade requests, click messages, clock advances) in one
\* run of the whole room.
MaxEvents == 4
\* Number of inputs (click messages, clock advances) in one run that starts
\* with both players in the room.
NavEvents == 4
\* Number of click messages in one run whose ticks go on without end.
LiveClicks == 3

(***************************************************************************)
(* Program constants.                                                      *)
(***************************************************************************)
DEFAULT_DURATION == 500
TICK_MS == 50
\* generateMap(seed, 10, 0.3): the radius of the room's map
ROOM_RADIUS == 10
\* a room that admits a third player
MaxPlayersOffByOne == 2 + 1
MAX_PLAYERS == 2

\* null, as a value that compares with every record
NULL == [null |-> TRUE]

(***************************************************************************)
(* 32-bit words, kept as two 16-bit halves <<hi, lo>> (the values of the   *)
(* generator do not fit a machine integer of the checker).                 *)
(***************************************************************************)
RECURSIVE BitXor(_, _, _)
BitXor(a, b, n) ==
    IF n = 0 THEN 0
    ELSE (((a % 2) + (b % 2)) % 2) + 2 * BitXor(a \div 2, b \div 2, n - 1)

RECURSIVE BitOr(_, _, _)
BitOr(a, b, n) ==
    IF n = 0 THEN 0
    ELSE (IF a % 2 = 1 \/ b % 2 = 1 THEN 1 ELSE 0)
         + 2 * BitOr(a \div 2, b \div 2, n - 1)

Xor32(a, b) == << BitXor(a[1], b[1], 16), BitXor(a[2], b[2], 16) >>

Or32(a, b) == << BitOr(a[1], b[1], 16), BitOr(a[2], b[2], 16) >>

\* a >>> k for 0 < k < 16
Shr32(a, k) ==
    << a[1] \div (2 ^ k),
       (a[1] % (2 ^ k)) * (2 ^ (16 - k)) + a[2] \div (2 ^ k) >>

\* (a + b) mod 2^32
Add32(a, b) ==
    LET lo == a[2] + b[2]
    IN  << (a[1] + b[1] + lo \div 65536) % 65536, lo % 65536 >>

\* (a * b) mod 2^16 for 16-bit a, b
MulLo16(a, b) ==
    (a * (b % 256) + ((a * (b \div 256)) % 256) * 256) % 65536

\* Math.imul: the low 32 bits of a * b
Imul(a, b) ==
    LET x == (a[2] % 256) * b[2]
        y == (a[2] \div 256) * b[2]
        p == Add32(<< x \div 65536, x % 65536 >>,
                   << y \div 256, (y % 256) * 256 >>)
    IN  << (p[1] + MulLo16(a[1], b[2]) + MulLo16(a[2], b[1])) % 65536, p[2] >>

\* ToUint32 of a non-negative integer seed
ToWord(n) == << (n \div 65536) % 65536, n % 65536 >>

\* 0x6D2B79F5
MulberryStep == << 27947, 31221 >>

\* One call of the closure returned by seededRandom: the new value of the
\* captured seed (mod 2^32) and the 32-bit numerator of the returned fraction.
seededRandom(seed) ==
    LET s1 == Add32(seed, MulberryStep)
        t1 == Imul(Xor32(s1, Shr32(s1, 15)), Or32(s1, << 0, 1 >>))
        t2 == Xor32(t1, Add32(t1, Imul(Xor32(t1, Shr32(t1, 7)),
                                       Or32(t1, << 0, 61 >>))))
    IN  [seed |-> s1, value |-> Xor32(t2, Shr32(t2, 14))]

\* value / 4294967296 < chance, for chance = num / den
BelowChance(value, chance) ==
    chance.den * value[1] + (chance.den * value[2]) \div 65536
        < chance.num * 65536

(***************************************************************************)
(* Hex math helpers.                                                       *)
(***************************************************************************)
Hex(q, r) == [q |-> q, r |-> r]

getKey(q, r) == << q, r >>

KeyOf(h) == getKey(h.q, h.r)

Abs(x) == IF x < 0 THEN -x ELSE x

Max(a, b) == IF a > b THEN a ELSE b

Min(a, b) == IF a < b THEN a ELSE b

hexDistance(a, b) ==
    (Abs(a.q - b.q) + Abs(a.q + a.r - b.q - b.r) + Abs(a.r - b.r)) \div 2

getNeighbors(hex) ==
    << Hex(hex.q + 1, hex.r), Hex(hex.q + 1, hex.r - 1), Hex(hex.q, hex.r - 1),
       Hex(hex.q - 1, hex.r), Hex(hex.q - 1, hex.r + 1), Hex(hex.q, hex.r + 1) >>

(***************************************************************************)
(* Map generation.                                                         *)
(***************************************************************************)
\* The coordinates of the field in generation order: q ascending, then r
\* ascending within q.
RECURSIVE MapCoords(_, _, _)
MapCoords(radius, q, r) ==
    IF q > radius THEN << >>
    ELSE IF r > Min(radius, -q + radius)
         THEN IF q + 1 > radius THEN << >>
              ELSE MapCoords(radius, q + 1, Max(-radius, -(q + 1) - radius))
         ELSE << Hex(q, r) >> \o MapCoords(radius, q, r + 1)

\* a centre kept free of land only up to distance 1
FarFromCenterByOne(h) == hexDistance(Hex(0, 0), h) > 1

\* Don't place land near center (for boat starting positions)
FarFromCenter(h) == hexDistance(Hex(0, 0), h) > 2

RECURSIVE GenerateTiles(_, _, _, _)
GenerateTiles(coords, i, seed, landChance) ==
    IF i > Len(coords) THEN << >>
    ELSE LET h == coords[i]
             far == FarFromCenter(h)
             rnd == seededRandom(seed)
             type == IF far /\ BelowChance(rnd.value, landChance)
                     THEN "land" ELSE "water"
         IN  << type >> \o
             GenerateTiles(coords, i + 1, IF far THEN rnd.seed ELSE seed, landChance)

\* tiles: key -> terrain type; the domain is the set of keys of the record
generateMap(seed, radius, landChance) ==
    LET coords == MapCoords(radius, -radius, Max(-radius, -(-radius) - radius))
        types == GenerateTiles(coords, 1, ToWord(seed), landChance)
    IN  [k \in { KeyOf(coords[i]) : i \in 1..Len(coords) } |->
            types[CHOOSE i \in 1..Len(coords) : KeyOf(coords[i]) = k]]

(***************************************************************************)
(* A* pathfinding - avoids occupied tiles.                                 *)
(***************************************************************************)
\* enqueue: push, then the stable sort by priority; the new entry ends up
\* behind every entry whose priority is not larger.
enqueue(pq, item, prio) ==
    LET n == Cardinality({ i \in 1..Len(pq) : pq[i].prio <= prio })
    IN  SubSeq(pq, 1, n) \o << [item |-> item, prio |-> prio] >>
        \o SubSeq(pq, n + 1, Len(pq))

\* a priority that leaves out the cost of the way so far
PriorityWithoutCost(newCost, next, target) == hexDistance(next, target)

\* newCost + hexDistance(next, target)
Priority(newCost, next, target) == newCost + hexDistance(next, target)

\* The body of the loop over the neighbours of `current`, for neighbour `next`.
\* a search that stops at the edge of the map only
IsLandOffMapOnly(tiles, nextKey) == nextKey \notin DOMAIN tiles

\* !tile || tile.type === 'land'
IsLand(tiles, nextKey) == nextKey \notin DOMAIN tiles \/ tiles[nextKey] = "land"

\* a search that walks through the tiles of other boats
IsOccupiedNever(occupiedTiles, nextKey) == FALSE

\* occupiedTiles.has(nextKey)
IsOccupied(occupiedTiles, nextKey) == nextKey \in occupiedTiles

VisitNeighbor(tiles, target, occupiedTiles, current, st, next) ==
    LET nextKey == KeyOf(next)
    IN  IF IsLand(tiles, nextKey) THEN st
        ELSE IF IsOccupied(occupiedTiles, nextKey) THEN st
        ELSE LET newCost == st.costSoFar[KeyOf(current)] + 1
             IN  IF nextKey \notin DOMAIN st.costSoFar \/ newCost < st.costSoFar[nextKey]
                 THEN [st EXCEPT
                         !.costSoFar = [k \in DOMAIN st.costSoFar \cup {nextKey} |->
                                          IF k = nextKey THEN newCost ELSE st.costSoFar[k]],
                         !.pq = enqueue(st.pq, next, Priority(newCost, next, target)),
                         !.cameFrom = [k \in DOMAIN st.cameFrom \cup {nextKey} |->
                                          IF k = nextKey THEN current ELSE st.cameFrom[k]]]
                 ELSE st

RECURSIVE VisitNeighbors(_, _, _, _, _, _, _)
VisitNeighbors(tiles, target, occupiedTiles, current, st, nbrs, i) ==
    IF i > Len(nbrs) THEN st
    ELSE VisitNeighbors(tiles, target, occupiedTiles, current,
             VisitNeighbor(tiles, target, occupiedTiles, current, st, nbrs[i]),
             nbrs, i + 1)

\* a closest tile that is replaced by every tile just as close
IsCloserOrEqual(d, minDst) == d <= minDst

\* d < minDst
IsCloser(d, minDst) == d < minDst

\* One pass of the while loop of findPath: dequeue, note the closest tile,
\* break at the target or visit the neighbours.
SearchStep(tiles, target, occupiedTiles, st) ==
    LET current == Head(st.pq).item
        d == hexDistance(current, target)
        st1 == [st EXCEPT !.pq = Tail(st.pq),
                          !.minDst = IF IsCloser(d, st.minDst) THEN d ELSE st.minDst,
                          !.closest = IF IsCloser(d, st.minDst) THEN current
                                      ELSE st.closest]
    IN  IF current.q = target.q /\ current.r = target.r
        THEN [st1 EXCEPT !.reached = TRUE]
        ELSE VisitNeighbors(tiles, target, occupiedTiles, current, st1,
                            getNeighbors(current), 1)

\* pq.length > 0 and no break yet
SearchGoesOn(st) == Len(st.pq) > 0 /\ ~st.reached

\* The next n passes of the loop, or fewer when the loop ends before; the
\* passes are taken in two halves, one after the other.
RECURSIVE SearchSteps(_, _, _, _, _)
SearchSteps(tiles, target, occupiedTiles, st, n) ==
    IF ~SearchGoesOn(st) THEN st
    ELSE IF n = 1 THEN SearchStep(tiles, target, occupiedTiles, st)
    ELSE SearchSteps(tiles, target, occupiedTiles,
             SearchSteps(tiles, target, occupiedTiles, st, n \div 2),
             n - (n \div 2))

\* The passes of the loop from st on, n of them and then twice as many, until
\* the loop ends.
RECURSIVE SearchRounds(_, _, _, _, _)
SearchRounds(tiles, target, occupiedTiles, st, n) ==
    LET after == SearchSteps(tiles, target, occupiedTiles, st, n)
    IN  IF SearchGoesOn(after)
        THEN SearchRounds(tiles, target, occupiedTiles, after, 2 * n)
        ELSE after

\* The while loop of findPath.
SearchLoop(tiles, target, occupiedTiles, st) ==
    SearchRounds(tiles, target, occupiedTiles, st, 1)

\* Reconstruct path: from `curr` back to start, in reverse order of the walk.
RECURSIVE ReconstructPath(_, _, _)
ReconstructPath(cameFrom, start, curr) ==
    IF curr = NULL \/ (curr.q = start.q /\ curr.r = start.r) THEN << >>
    ELSE ReconstructPath(cameFrom, start,
             IF KeyOf(curr) \in DOMAIN cameFrom THEN cameFrom[KeyOf(curr)] ELSE NULL)
         \o << curr >>

\* a path that begins with the tile it starts from
PathToWithStart(cameFrom, start, end) ==
    << start >> \o ReconstructPath(cameFrom, start, end)

\* the empty path when the end is the start, else the reconstructed path
PathTo(cameFrom, start, end) ==
    IF end.q = start.q /\ end.r = start.r THEN << >>
    ELSE ReconstructPath(cameFrom, start, end)

findPath(tiles, start, target, occupiedTiles) ==
    LET startKey == KeyOf(start)
        st0 == [pq |-> << [item |-> start, prio |-> 0] >>,
                cameFrom |-> [k \in {startKey} |-> NULL],
                costSoFar |-> [k \in {startKey} |-> 0],
                closest |-> start,
                minDst |-> hexDistance(start, target),
                reached |-> FALSE]
        st == SearchLoop(tiles, target, occupiedTiles, st0)
        targetWalkable == KeyOf(target) \in DOMAIN tiles /\ tiles[KeyOf(target)] = "water"
        end == IF st.reached /\ targetWalkable THEN target ELSE st.closest
    IN  PathTo(st.cameFrom, start, end)

\* starting positions in the opposite order
getStartingPositionSwapped(playerIndex) ==
    LET positions == << Hex(2, 0), Hex(0, 0) >>
    IN  IF playerIndex + 1 \in 1..Len(positions) THEN positions[playerIndex + 1]
        ELSE Hex(0, 0)

\* Get starting position for a player
getStartingPosition(playerIndex) ==
    LET positions == << Hex(0, 0), Hex(2, 0) >>
    IN  IF playerIndex + 1 \in 1..Len(positions) THEN positions[playerIndex + 1]
        ELSE Hex(0, 0)

(***************************************************************************)
(* The room: state of a GameRoom object and of its platform (clock, alarm, *)
(* open sockets).                                                          *)
(***************************************************************************)
VARIABLES
    now,              \* Date.now()
    gameState,        \* NULL or [mapSeed, tiles, players]; players in insertion order
    sessions,         \* ws -> playerId
    viewers,          \* set of ws
    playerDurations,  \* playerId -> duration
    alarmAt,          \* NULL or [time |-> t]: the alarm held by state.storage
    sent,             \* the messages sent by the last handler, in order: [to, msg]
    response,         \* HTTP status returned by the last step (0: it was no request)
    event,            \* the last step: [op, ws, message]
    requests,         \* number of upgrade requests so far; request n creates socket n
    uuids,            \* number of crypto.randomUUID() calls so far
    events,           \* number of requests, clicks and clock advances so far
    sockets,          \* state.getWebSockets(): the sockets accepted and still open
    call              \* NULL, or a call of generateMap or findPath: its arguments
                      \* and, once it has returned (done), its result

vars == << now, gameState, sessions, viewers, playerDurations, alarmAt, sent,
           response, event, requests, uuids, events, sockets, call >>

Event(op, ws, message) == [op |-> op, ws |-> ws, message |-> message]

\* landChance 0.3, as a fraction
LandChance == [num |-> 3, den |-> 10]

\* Click targets sent by the clients in the checks.
ClickTargets == { Hex(2, -2), Hex(2, 0), Hex(0, 0) }

\* A set of integers as the ascending sequence (sockets iterate in the order
\* they were added, which is the order of their creation).
RECURSIVE SetToSeq(_)
SetToSeq(S) ==
    IF S = {} THEN << >>
    ELSE LET m == CHOOSE x \in S : \A y \in S : x <= y
         IN  << m >> \o SetToSeq(S \ {m})

SeqMap(Op(_), seq) == [i \in 1..Len(seq) |-> Op(seq[i])]

PlayerCount(gs) == IF gs = NULL THEN 0 ELSE Len(gs.players)

PlayerIds(gs) == IF gs = NULL THEN {} ELSE { gs.players[i].id : i \in 1..Len(gs.players) }

\* index of the player record with this id (0 if there is none)
PlayerIndex(gs, id) ==
    IF id \in PlayerIds(gs)
    THEN CHOOSE i \in 1..Len(gs.players) : gs.players[i].id = id
    ELSE 0

(***************************************************************************)
(* Broadcasts.                                                             *)
(***************************************************************************)
DebugMsg(direction, payload, t) ==
    [type |-> "debug", direction |-> direction, payload |-> payload, timestamp |-> t]

broadcastToViewers(vs, message) ==
    LET seq == SetToSeq(vs)
    IN  [i \in 1..Len(seq) |-> [to |-> seq[i], msg |-> message]]

\* a broadcast that does not skip the excluded socket
broadcastToAll(sess, vs, message, exclude, t) ==
    LET ps == SetToSeq(DOMAIN sess)
    IN  [i \in 1..Len(ps) |-> [to |-> ps[i], msg |-> message]]
        \o broadcastToViewers(vs, message)
        \o broadcastToViewers(vs, DebugMsg("out", message, t))

\* broadcast(message, exclude): exclude = 0 stands for no excluded socket
broadcast(sess, vs, message, exclude, t) ==
    LET ps == SetToSeq(DOMAIN sess \ {exclude})
    IN  [i \in 1..Len(ps) |-> [to |-> ps[i], msg |-> message]]
        \o broadcastToViewers(vs, message)
        \o broadcastToViewers(vs, DebugMsg("out", message, t))

(***************************************************************************)
(* Navigation engine.                                                      *)
(***************************************************************************)
TileIndex(navPlan, t) == (t - navPlan.startTime) \div navPlan.duration

\* a next-tile read that follows the current-tile read before the first tile
getNextTilePositionBehind(player, t) ==
    IF player.navPlan = NULL THEN player.boat
    ELSE LET tileIndex == TileIndex(player.navPlan, t)
             path == player.navPlan.path
         IN  IF tileIndex >= Len(path) THEN path[Len(path)]
             ELSE IF tileIndex <= 0 THEN player.boat
             ELSE path[tileIndex + 1]

getNextTilePosition(player, t) ==
    IF player.navPlan = NULL THEN player.boat
    ELSE LET tileIndex == TileIndex(player.navPlan, t)
             path == player.navPlan.path
         IN  IF tileIndex >= Len(path) THEN path[Len(path)]
             ELSE IF tileIndex < 0 THEN path[1]
             ELSE path[tileIndex + 1]

\* a current-tile read that is one tile ahead
getCurrentTilePositionAhead(player, t) ==
    IF player.navPlan = NULL THEN player.boat
    ELSE LET tileIndex == TileIndex(player.navPlan, t)
             path == player.navPlan.path
         IN  IF tileIndex >= Len(path) THEN path[Len(path)]
             ELSE IF tileIndex < 0 THEN player.boat
             ELSE path[tileIndex + 1]

getCurrentTilePosition(player, t) ==
    IF player.navPlan = NULL THEN player.boat
    ELSE LET tileIndex == TileIndex(player.navPlan, t)
             path == player.navPlan.path
         IN  IF tileIndex >= Len(path) THEN path[Len(path)]
             ELSE IF tileIndex <= 0 THEN player.boat
             ELSE path[tileIndex]

\* an occupied set without the tiles the other boats stand on
getOccupiedTilesNextOnly(gs, excludePlayerId, t) ==
    IF gs = NULL THEN {}
    ELSE UNION { LET p == gs.players[i]
                 IN  IF p.navPlan # NULL
                     THEN { KeyOf(getNextTilePosition(p, t)) } ELSE {}
                 : i \in { j \in 1..Len(gs.players) : gs.players[j].id # excludePlayerId } }

getOccupiedTiles(gs, excludePlayerId, t) ==
    IF gs = NULL THEN {}
    ELSE UNION { LET p == gs.players[i]
                 IN  { KeyOf(getCurrentTilePosition(p, t)) }
                     \cup (IF p.navPlan # NULL
                           THEN { KeyOf(getNextTilePosition(p, t)) } ELSE {})
                 : i \in { j \in 1..Len(gs.players) : gs.players[j].id # excludePlayerId } }

PlayerDuration(durations, id) ==
    IF id \in DOMAIN durations /\ durations[id] # 0 THEN durations[id]
    ELSE DEFAULT_DURATION

\* a navPlan that reports the first tile of the path as the position left
NavPlanMsgFromFirstTile(id, path, duration, fromPosition, elapsed) ==
    [type |-> "navPlan", playerId |-> id, path |-> path, duration |-> duration,
     fromPosition |-> path[1], elapsed |-> elapsed]

NavPlanMsg(id, path, duration, fromPosition, elapsed) ==
    [type |-> "navPlan", playerId |-> id, path |-> path, duration |-> duration,
     fromPosition |-> fromPosition, elapsed |-> elapsed]

\* a navEnd that reports the position with its coordinates exchanged
NavEndMsgSwapped(id, position) ==
    [type |-> "navEnd", playerId |-> id, position |-> Hex(position.r, position.q)]

NavEndMsg(id, position) == [type |-> "navEnd", playerId |-> id, position |-> position]

\* an Idle click that starts a plan whatever the path
NoPathFoundNever(fullPath) == FALSE

\* fullPath.length === 0
NoPathFound(fullPath) == Len(fullPath) = 0

\* a collision check that looks at the player itself instead of the others
IsBlockedBySelf(gs, player, nextKey, t) ==
    \E j \in 1..Len(gs.players) :
        /\ gs.players[j].id = player.id
        /\ KeyOf(getCurrentTilePosition(gs.players[j], t)) = nextKey

\* Check for collision with next tile
IsBlocked(gs, player, nextKey, t) ==
    \E j \in 1..Len(gs.players) :
        /\ gs.players[j].id # player.id
        /\ KeyOf(getCurrentTilePosition(gs.players[j], t)) = nextKey

\* a reroute that is never dropped
NoValidPathNever(pathFromNext, nextTile, target) == FALSE

\* No valid path, continue current navigation
NoValidPath(pathFromNext, nextTile, target) ==
    Len(pathFromNext) = 0 /\ (nextTile.q # target.q \/ nextTile.r # target.r)

\* a reroute that restarts the clock of the tile being entered
RerouteElapsedRestart(navPlan, duration, t) == 0

\* Calculate elapsed time since we started moving toward nextTile
RerouteElapsed(navPlan, duration, t) ==
    LET totalElapsed == t - navPlan.startTime
        tileIndex == totalElapsed \div navPlan.duration
    IN  totalElapsed - (tileIndex * duration)

\* handleClick: the new record of the player and the message it broadcasts
\* (NULL when it returns without a broadcast).
handleClick(gs, durations, player, q, r, t) ==
    LET target == Hex(q, r)
        duration == PlayerDuration(durations, player.id)
        occupiedTiles == getOccupiedTiles(gs, player.id, t)
    IN  IF player.navPlan # NULL
        THEN LET currentTile == getCurrentTilePosition(player, t)
                 nextTile == getNextTilePosition(player, t)
                 pathFromNext == findPath(gs.tiles, nextTile, target, occupiedTiles)
                 elapsedTime == RerouteElapsed(player.navPlan, duration, t)
                 fullPath == << nextTile >> \o pathFromNext
             IN  IF NoValidPath(pathFromNext, nextTile, target)
                 THEN [player |-> player, msg |-> NULL]
                 ELSE [player |-> [player EXCEPT
                                     !.navPlan = [path |-> fullPath,
                                                  startTime |-> t - elapsedTime,
                                                  duration |-> duration],
                                     !.boat = currentTile],
                       msg |-> NavPlanMsg(player.id, fullPath, duration, currentTile,
                                          elapsedTime)]
        ELSE LET fullPath == findPath(gs.tiles, player.boat, target, occupiedTiles)
             IN  IF NoPathFound(fullPath)
                 THEN [player |-> player, msg |-> NULL]
                 ELSE [player |-> [player EXCEPT
                                     !.navPlan = [path |-> fullPath,
                                                  startTime |-> t,
                                                  duration |-> duration]],
                       msg |-> NavPlanMsg(player.id, fullPath, duration, player.boat, 0)]

\* updatePlayerNavigation for the player at index i: the new game state and
\* the message it broadcasts (NULL when there is none).
updatePlayerNavigation(gs, durations, i, t) ==
    LET player == gs.players[i]
    IN  IF player.navPlan = NULL THEN [gs |-> gs, msg |-> NULL]
        ELSE
        LET path == player.navPlan.path
            tileIndex == TileIndex(player.navPlan, t)
            boat1 == IF tileIndex > 0 /\ tileIndex <= Len(path)
                     THEN path[tileIndex] ELSE player.boat
        IN  IF tileIndex >= Len(path)
            THEN [gs |-> [gs EXCEPT !.players[i] =
                            [player EXCEPT !.boat = path[Len(path)], !.navPlan = NULL]],
                  msg |-> NavEndMsg(player.id, path[Len(path)])]
            ELSE
            LET moved == [player EXCEPT !.boat = boat1]
                gs1 == [gs EXCEPT !.players[i] = moved]
            IN  IF tileIndex < 0 THEN [gs |-> gs1, msg |-> NULL]
                ELSE
                LET nextKey == KeyOf(path[tileIndex + 1])
                    blocked == IsBlocked(gs1, player, nextKey, t)
                IN  IF ~blocked THEN [gs |-> gs1, msg |-> NULL]
                    ELSE
                    LET finalDestination == path[Len(path)]
                        occupiedTiles == getOccupiedTiles(gs1, player.id, t)
                        newPath == findPath(gs1.tiles, moved.boat, finalDestination,
                                            occupiedTiles)
                        duration == PlayerDuration(durations, player.id)
                    IN  IF Len(newPath) > 0
                        THEN [gs |-> [gs1 EXCEPT !.players[i].navPlan =
                                        [path |-> newPath, startTime |-> t,
                                         duration |-> duration]],
                              msg |-> NavPlanMsg(player.id, newPath, duration, moved.boat, 0)]
                        ELSE [gs |-> [gs1 EXCEPT !.players[i].navPlan = NULL],
                              msg |-> NavEndMsg(player.id, moved.boat)]

\* The loop of alarm() over Object.values(players), from index i on: the
\* resulting game state and everything broadcast on the way.
RECURSIVE UpdateAll(_, _, _, _, _, _)
UpdateAll(gs, durations, sess, vs, i, t) ==
    IF i > Len(gs.players) THEN [gs |-> gs, out |-> << >>]
    ELSE LET u == updatePlayerNavigation(gs, durations, i, t)
             rest == UpdateAll(u.gs, durations, sess, vs, i + 1, t)
         IN  [gs |-> rest.gs,
              out |-> (IF u.msg = NULL THEN << >>
                       ELSE broadcast(sess, vs, u.msg, 0, t)) \o rest.out]

(***************************************************************************)
(* Handlers.                                                               *)
(***************************************************************************)
\* The clock readings of the runs, and the map generated from each of them as
\* seed (computed once, so that a run does not generate the same map again).
ClockValues ==
    LET n == Max(MaxEvents, NavEvents)
    IN  { a * TICK_MS + b * DEFAULT_DURATION : a \in 0..n, b \in 0..n }

MapOfSeed == [seed \in ClockValues |-> generateMap(seed, MapRadius, LandChance)]

\* the player count check with > in place of >=
RoomIsFullStrict(gs) == gs # NULL /\ Len(gs.players) > MAX_PLAYERS

\* Check player count
RoomIsFull(gs) == gs # NULL /\ Len(gs.players) >= MAX_PLAYERS

NewGameState(t) ==
    [mapSeed |-> t, tiles |-> MapOfSeed[t], players |-> << >>]

startGameTick(t) == [time |-> t + TICK_MS]

\* fetch with Upgrade: websocket and no viewer flag
handleWebSocket ==
    /\ events < MaxEvents
    /\ events' = events + 1
    /\ requests' = requests + 1
    /\ event' = Event("player", 0, NULL)
    /\ UNCHANGED call
    /\ IF RoomIsFull(gameState)
       THEN /\ response' = 403
            /\ sent' = << >>
            /\ UNCHANGED << now, gameState, sessions, viewers, playerDurations,
                            alarmAt, uuids, sockets >>
       ELSE LET server == requests + 1
                gs1 == IF gameState = NULL THEN NewGameState(now) ELSE gameState
                playerId == uuids + 1
                playerCount == Len(gs1.players)
                color == IF playerCount = 0 THEN "red" ELSE "blue"
                startPos == getStartingPosition(playerCount)
                player == [id |-> playerId, color |-> color, boat |-> startPos,
                           navPlan |-> NULL]
                gs2 == [gs1 EXCEPT !.players = Append(gs1.players, player)]
                sess2 == [w \in DOMAIN sessions \cup {server} |->
                            IF w = server THEN playerId ELSE sessions[w]]
            IN  /\ sockets' = sockets \cup {server}
                /\ gameState' = gs2
                /\ sessions' = sess2
                /\ playerDurations' = [p \in DOMAIN playerDurations \cup {playerId} |->
                                         IF p = playerId THEN DEFAULT_DURATION
                                         ELSE playerDurations[p]]
                /\ uuids' = uuids + 1
                /\ sent' = << [to |-> server,
                               msg |-> [type |-> "init", state |-> gs2,
                                        playerId |-> playerId]] >>
                           \o broadcast(sess2, viewers,
                                        [type |-> "playerJoined", playerId |-> playerId,
                                         color |-> color, boat |-> player.boat],
                                        server, now)
                /\ alarmAt' = startGameTick(now)
                /\ response' = 101
                /\ UNCHANGED << now, viewers >>

\* a viewer registration that takes every open socket of the room
AddViewerAndSessions(vs, server) == vs \cup {server} \cup DOMAIN sessions

\* this.viewers.add(server)
AddViewer(vs, server) == vs \cup {server}

\* fetch with Upgrade: websocket and viewer=true
handleViewerWebSocket ==
    /\ events < MaxEvents
    /\ events' = events + 1
    /\ requests' = requests + 1
    /\ event' = Event("viewer", 0, NULL)
    /\ UNCHANGED call
    /\ LET server == requests + 1
           gs1 == IF gameState = NULL THEN NewGameState(now) ELSE gameState
       IN  /\ sockets' = sockets \cup {server}
           /\ viewers' = AddViewer(viewers, server)
           /\ gameState' = gs1
           /\ sent' = << [to |-> server,
                          msg |-> [type |-> "init", state |-> gs1, playerId |-> NULL]] >>
           /\ response' = 101
    /\ UNCHANGED << now, sessions, playerDurations, alarmAt, uuids >>

\* The messages a client sends in the checks: text frames holding a click, a
\* setSpeed, an unknown type or no JSON at all, and binary frames.
ClickMessages ==
    { [string |-> TRUE, json |-> [type |-> "click", q |-> h.q, r |-> h.r]] : h \in ClickTargets }

ClientMessages ==
    ClickMessages
    \cup { [string |-> TRUE, json |-> [type |-> "setSpeed", duration |-> 100]],
           [string |-> TRUE, json |-> [type |-> "move"]],
           [string |-> TRUE, json |-> NULL],
           [string |-> FALSE, json |-> NULL] }

\* a room that does not tell its viewers from its players
IsViewerNever(vs, ws) == FALSE

\* this.viewers.has(ws)
IsViewer(vs, ws) == ws \in vs

handleMessage(gs, durations, player, msg, t) ==
    IF msg.type = "click" THEN handleClick(gs, durations, player, msg.q, msg.r, t)
    ELSE [player |-> player, msg |-> NULL]

\* a catch block that answers the sender with an error message
catchParseErrorReply(ws) ==
    << [to |-> ws, msg |-> [type |-> "error", message |-> "Failed to parse message"]] >>

\* catch (e): the messages sent when JSON.parse throws (none, it only logs)
catchParseError(ws) == << >>

webSocketMessage(ws, message, maxEvents) ==
    /\ event' = Event("message", ws, message)
    /\ UNCHANGED << call, sockets >>
    /\ IF \/ ~message.string
          \/ IsViewer(viewers, ws)
          \/ ws \notin DOMAIN sessions
          \/ gameState = NULL
          \/ PlayerIndex(gameState, sessions[ws]) = 0
       THEN /\ sent' = << >>
            /\ UNCHANGED << gameState, events >>
       ELSE IF message.json = NULL
       THEN /\ sent' = catchParseError(ws)
            /\ UNCHANGED << gameState, events >>
       ELSE LET playerId == sessions[ws]
                i == PlayerIndex(gameState, playerId)
                msg == message.json
                debug == broadcastToViewers(viewers,
                             DebugMsg("in", [playerId |-> playerId, msg |-> msg], now))
            IN  /\ msg.type = "click" => events < maxEvents
                /\ events' = IF msg.type = "click" THEN events + 1 ELSE events
                /\ \E h \in { handleMessage(gameState, playerDurations,
                                             gameState.players[i], msg, now) } :
                      /\ gameState' = [gameState EXCEPT !.players[i] = h.player]
                      /\ sent' = debug \o (IF h.msg = NULL THEN << >>
                                           ELSE broadcast(sessions, viewers, h.msg, 0, now))
    /\ response' = 0
    /\ UNCHANGED << now, sessions, viewers, playerDurations, alarmAt,
                    requests, uuids >>

\* a removal that leaves the record in place
RemoveAtNone(seq, i) == seq

\* delete this.gameState.players[playerId]
RemoveAt(seq, i) == SubSeq(seq, 1, i - 1) \o SubSeq(seq, i + 1, Len(seq))

\* a close that leaves the speed entry in the table
DeleteDurationNone(durations, id) == durations

\* this.playerDurations.delete(playerId)
DeleteDuration(durations, id) == [p \in DOMAIN durations \ {id} |-> durations[p]]

\* a room that keeps its state while viewers are attached
NoSessionsNorViewers(sess) == DOMAIN sess = {} /\ viewers = {}

\* this.sessions.size === 0
NoSessions(sess) == DOMAIN sess = {}

\* a stopGameTick that leaves the alarm in place
stopGameTickNoDelete == alarmAt

\* state.storage.deleteAlarm()
stopGameTick == NULL

webSocketClose(ws) ==
    /\ event' = Event("close", ws, NULL)
    /\ sockets' = sockets \ {ws}
    /\ UNCHANGED call
    /\ IF IsViewer(viewers, ws)
       THEN /\ viewers' = viewers \ {ws}
            /\ sent' = << >>
            /\ UNCHANGED << gameState, sessions, playerDurations, alarmAt >>
       ELSE LET known == ws \in DOMAIN sessions
                sess2 == [w \in DOMAIN sessions \ {ws} |-> sessions[w]]
                removes == known /\ gameState # NULL
                i == IF removes THEN PlayerIndex(gameState, sessions[ws]) ELSE 0
                gs2 == IF i # 0
                       THEN [gameState EXCEPT !.players = RemoveAt(gameState.players, i)]
                       ELSE gameState
            IN  /\ sessions' = sess2
                /\ viewers' = viewers
                /\ playerDurations' =
                       IF removes
                       THEN DeleteDuration(playerDurations, sessions[ws])
                       ELSE playerDurations
                /\ sent' = IF removes
                           THEN broadcast(sess2, viewers,
                                          [type |-> "playerLeft", playerId |-> sessions[ws]],
                                          0, now)
                           ELSE << >>
                /\ IF NoSessions(sess2)
                   THEN alarmAt' = stopGameTick /\ gameState' = NULL
                   ELSE alarmAt' = alarmAt /\ gameState' = gs2
    /\ response' = 0
    /\ UNCHANGED << now, requests, uuids, events >>

\* The alarm fires: the platform drops the stored alarm and runs alarm().
alarm ==
    /\ alarmAt # NULL
    /\ now >= alarmAt.time
    /\ event' = Event("alarm", 0, NULL)
    /\ UNCHANGED << call, sockets >>
    /\ IF gameState = NULL \/ DOMAIN sessions = {}
       THEN /\ alarmAt' = NULL
            /\ sent' = << >>
            /\ UNCHANGED gameState
       ELSE /\ \E u \in { UpdateAll(gameState, playerDurations, sessions, viewers, 1, now) } :
                  /\ gameState' = u.gs
                  /\ sent' = u.out
            /\ alarmAt' = [time |-> now + TICK_MS]
    /\ response' = 0
    /\ UNCHANGED << now, sessions, viewers, playerDurations, requests,
                    uuids, events >>

\* The clock moves on, by one tick period or by one tile duration; an alarm
\* that is due runs before the clock moves again.
AdvanceTime(dt, maxEvents) ==
    /\ events < maxEvents
    /\ IF alarmAt = NULL THEN TRUE ELSE now < alarmAt.time
    /\ now' = now + dt
    /\ events' = events + 1
    /\ event' = Event("clock", 0, NULL)
    /\ UNCHANGED << call, sockets >>
    /\ sent' = << >>
    /\ response' = 0
    /\ UNCHANGED << gameState, sessions, viewers, playerDurations, alarmAt,
                    requests, uuids >>

Init ==
    /\ now = 0
    /\ gameState = NULL
    /\ sessions = << >>
    /\ viewers = {}
    /\ playerDurations = << >>
    /\ alarmAt = NULL
    /\ sent = << >>
    /\ response = 0
    /\ event = Event("none", 0, NULL)
    /\ requests = 0
    /\ uuids = 0
    /\ events = 0
    /\ sockets = {}
    /\ call = NULL

Next ==
    \/ handleWebSocket
    \/ handleViewerWebSocket
    \/ \E ws \in sockets : \E message \in ClientMessages :
          webSocketMessage(ws, message, MaxEvents)
    \/ \E ws \in sockets : webSocketClose(ws)
    \/ alarm
    \/ \E dt \in {TICK_MS, DEFAULT_DURATION} : AdvanceTime(dt, MaxEvents)

Spec == Init /\ [][Next]_vars

(***************************************************************************)
(* The viewer runs: the runs of the room from the state in which a viewer  *)
(* has connected to the new room at time 0 (the state handleViewerWebSocket *)
(* leaves): socket 1 is that viewer and has been sent one init, with the   *)
(* map of seed 0.                                                          *)
(***************************************************************************)
InitViewer ==
    /\ now = 0
    /\ gameState = NewGameState(0)
    /\ sessions = << >>
    /\ viewers = AddViewer({}, 1)
    /\ playerDurations = << >>
    /\ alarmAt = NULL
    /\ sent = << [to |-> 1,
                  msg |-> [type |-> "init", state |-> NewGameState(0),
                           playerId |-> NULL]] >>
    /\ response = 101
    /\ event = Event("viewer", 0, NULL)
    /\ requests = 1
    /\ uuids = 0
    /\ events = 1
    /\ sockets = {1}
    /\ call = NULL

SpecViewer == InitViewer /\ [][Next]_vars

(***************************************************************************)
(* The navigation runs: both players have joined an empty room at time 0   *)
(* and a viewer is attached; from there on only the players' clicks, the   *)
(* ticks and the clock act.                                                *)
(***************************************************************************)
InitNav ==
    LET p1 == [id |-> 1, color |-> "red", boat |-> getStartingPosition(0), navPlan |-> NULL]
        p2 == [id |-> 2, color |-> "blue", boat |-> getStartingPosition(1), navPlan |-> NULL]
    IN  /\ now = 0
        /\ gameState = [NewGameState(0) EXCEPT !.players = << p1, p2 >>]
        /\ sessions = << 1, 2 >>
        /\ viewers = {3}
        /\ playerDurations = << DEFAULT_DURATION, DEFAULT_DURATION >>
        /\ alarmAt = startGameTick(0)
        /\ sent = << >>
        /\ response = 0
        /\ event = Event("none", 0, NULL)
        /\ requests = 3
        /\ uuids = 2
        /\ events = 0
        /\ sockets = {1, 2, 3}
        /\ call = NULL

NextNav ==
    \/ \E ws \in DOMAIN sessions : \E message \in ClickMessages :
          webSocketMessage(ws, message, NavEvents)
    \/ alarm
    \/ \E dt \in {TICK_MS, DEFAULT_DURATION} : AdvanceTime(dt, NavEvents)

SpecNav == InitNav /\ [][NextNav]_vars

(***************************************************************************)
(* The land runs: the navigation runs with clicks on land tiles of the map *)
(* of seed 0 and on a water tile behind one of them.                       *)
(***************************************************************************)
LandClickTargets == { Hex(1, 2), Hex(1, -3), Hex(0, 3) }

LandClickMessages ==
    { [string |-> TRUE, json |-> [type |-> "click", q |-> h.q, r |-> h.r]] :
        h \in LandClickTargets }

NextLand ==
    \/ \E ws \in DOMAIN sessions : \E message \in LandClickMessages :
          webSocketMessage(ws, message, NavEvents)
    \/ alarm
    \/ \E dt \in {TICK_MS, DEFAULT_DURATION} : AdvanceTime(dt, NavEvents)

SpecLand == InitNav /\ [][NextLand]_vars

(***************************************************************************)
(* The tick runs: the navigation runs, and the runs of a room object that  *)
(* the platform has constructed again (its fields as the constructor       *)
(* leaves them) while the alarm set by an earlier tick is still stored and *)
(* the sockets of the players that had joined are still open               *)
(* (state.acceptWebSocket, line 252); in these runs viewers connect and    *)
(* sockets close as well.                                                  *)
(***************************************************************************)
InitWoken ==
    /\ now = TICK_MS
    /\ gameState = NULL
    /\ sessions = << >>
    /\ viewers = {}
    /\ playerDurations = << >>
    /\ alarmAt = startGameTick(0)
    /\ sent = << >>
    /\ response = 0
    /\ event = Event("none", 0, NULL)
    /\ \E n \in 1..MAX_PLAYERS :
          /\ requests = n
          /\ uuids = n
          /\ sockets = 1..n
    /\ events = 0
    /\ call = NULL

InitTick == InitNav \/ InitWoken

NextTick ==
    \/ NextNav
    \/ handleViewerWebSocket
    \/ \E ws \in sockets : webSocketClose(ws)

SpecTick == InitTick /\ [][NextTick]_vars

(***************************************************************************)
(* The unending runs.  The room was created at time 0 with the map of the  *)
(* code's own radius; both players joined, the first clicked (5,-5) and    *)
(* arrived at 3000, the second then clicked (5,-6) and arrived at 7000:    *)
(* both are Idle on neighbouring water tiles next to the land tile (6,-6), *)
(* whose six neighbours are water.  From there at most LiveClicks clicks   *)
(* arrive, on a tile of that ring or one next to it, and the clock moves   *)
(* on by half a tile duration for as long as a boat is under way; the      *)
(* alarm reschedules itself on every tick (line 573), so the platform      *)
(* keeps running it, and the clock never stops.                            *)
(*                                                                         *)
(* The code uses a clock reading only in its difference to a reading it    *)
(* stored (now - startTime, lines 448, 495, 517, 579; the alarm time       *)
(* against the clock), so a run and the same run with every reading        *)
(* shifted by one amount are the same run of the code.  These runs are     *)
(* written with the readings relative to the present: when the clock moves *)
(* on, the present reading stays LIVE_EPOCH and every stored reading moves *)
(* back by the step.  A run that goes through the same positions, plans    *)
(* and progress again and again is then a run that returns to a state.     *)
(***************************************************************************)
LIVE_STEP == DEFAULT_DURATION \div 2

\* the clock reading when the second player has arrived: six tiles of the
\* first player's way, then eight tiles of the second's
LIVE_EPOCH == (6 + 8) * DEFAULT_DURATION

LiveMap == generateMap(0, ROOM_RADIUS, LandChance)

LiveClickTargets == { Hex(6, -7), Hex(7, -5) }

LiveClickMessages ==
    { [string |-> TRUE, json |-> [type |-> "click", q |-> h.q, r |-> h.r]] :
        h \in LiveClickTargets }

InitLive ==
    LET p1 == [id |-> 1, color |-> "red", boat |-> Hex(5, -5), navPlan |-> NULL]
        p2 == [id |-> 2, color |-> "blue", boat |-> Hex(5, -6), navPlan |-> NULL]
    IN  /\ now = LIVE_EPOCH
        /\ gameState = [mapSeed |-> 0, tiles |-> LiveMap, players |-> << p1, p2 >>]
        /\ sessions = << 1, 2 >>
        /\ viewers = {}
        /\ playerDurations = << DEFAULT_DURATION, DEFAULT_DURATION >>
        /\ alarmAt = startGameTick(LIVE_EPOCH)
        /\ sent = << >>
        /\ response = 0
        /\ event = Event("none", 0, NULL)
        /\ requests = 2
        /\ uuids = 2
        /\ events = 0
        /\ sockets = {1, 2}
        /\ call = NULL

SomeoneMoving ==
    /\ gameState # NULL
    /\ \E i \in 1..Len(gameState.players) : gameState.players[i].navPlan # NULL

\* the plans of gs with their start times written d earlier
StartedEarlier(gs, d) ==
    [gs EXCEPT !.players =
        [i \in 1..Len(gs.players) |->
            IF gs.players[i].navPlan = NULL
            THEN gs.players[i]
            ELSE [gs.players[i] EXCEPT !.navPlan.startTime = @ - d]]]

\* The clock moves on by LIVE_STEP while no alarm is due.
AdvanceLive ==
    /\ IF alarmAt = NULL THEN TRUE ELSE now < alarmAt.time
    /\ SomeoneMoving
    /\ now' = now
    /\ gameState' = StartedEarlier(gameState, LIVE_STEP)
    /\ alarmAt' = IF alarmAt = NULL THEN NULL ELSE [time |-> alarmAt.time - LIVE_STEP]
    /\ event' = Event("clock", 0, NULL)
    /\ sent' = << >>
    /\ response' = 0
    /\ UNCHANGED << sessions, viewers, playerDurations,
                    requests, uuids, events, sockets, call >>

NextLive ==
    \/ \E ws \in DOMAIN sessions : \E message \in LiveClickMessages :
          webSocketMessage(ws, message, LiveClicks)
    \/ alarm
    \/ AdvanceLive

\* a due alarm is run: of the steps of NextLive these are the steps of alarm,
\* and such a step is possible exactly when the alarm is due (the step before
\* a due alarm is a clock advance or a click, so it changes event)
TickFires ==
    /\ alarmAt # NULL
    /\ now >= alarmAt.time
    /\ event' = Event("alarm", 0, NULL)

SpecLive ==
    InitLive /\ [][NextLive]_vars /\ WF_event(TickFires) /\ WF_vars(AdvanceLive)

(***************************************************************************)
(* The function runs: a room as constructed, and one call of generateMap,  *)
(* of findPath or of the two tile reads with arguments drawn from the sets *)
(* below.                                                                  *)
(***************************************************************************)
NoChance == [num |-> 0, den |-> 1]
HighChance == [num |-> 3, den |-> 5]
FullChance == [num |-> 1, den |-> 1]

\* seeds and land chances of the maps handed to findPath
PathMapKeys ==
    { << 0, NoChance >>, << 0, LandChance >>, << 123456, LandChance >>,
      << 0, HighChance >> }

PathMaps == [k \in PathMapKeys |-> generateMap(k[1], MapRadius, k[2])]

\* the coordinates up to one ring outside the field
PathCoords ==
    { Hex(q, r) : q \in -(MapRadius + 1)..(MapRadius + 1),
                  r \in -(MapRadius + 1)..(MapRadius + 1) }

PathTargets == { h \in PathCoords : hexDistance(Hex(0, 0), h) <= MapRadius + 1 }

\* starts: the coordinates of the two axes through the origin
PathStarts == { h \in PathTargets : h.q = 0 \/ h.r = 0 }

OccupiedSets ==
    { {}, { getKey(1, 0) }, { getKey(1, 0), getKey(1, -1), getKey(2, -1) },
      { KeyOf(getNeighbors(Hex(0, 0))[i]) : i \in 1..6 } }

FindPathCalls ==
    { [fn |-> "findPath", map |-> k, start |-> s, target |-> t,
       occupiedTiles |-> o, done |-> FALSE, result |-> NULL] :
        k \in PathMapKeys, s \in PathStarts, t \in PathTargets, o \in OccupiedSets }

GenerateMapCalls ==
    { [fn |-> "generateMap", seed |-> sd, radius |-> rd, landChance |-> ch,
       done |-> FALSE, result |-> NULL] :
        sd \in {0, 50, 123456, 2147483647}, rd \in 0..MapRadius,
        ch \in {NoChance, LandChance, HighChance, FullChance} }

\* the plans of the tile reads: 1 to MapRadius tiles along the q axis, read
\* from before their start until after their end, on and off the tile times
TileReadPlans ==
    { [path |-> [k \in 1..n |-> Hex(k, 0)], startTime |-> st, duration |-> d] :
        n \in 1..MapRadius, st \in {0, DEFAULT_DURATION},
        d \in {DEFAULT_DURATION, 2 * TICK_MS} }

TileReadTimes ==
    LET half == DEFAULT_DURATION \div 2
    IN  { k * half : k \in 0..(2 * MapRadius + 4) }
        \cup { k * half - 1 : k \in 1..(2 * MapRadius + 4) }

TileReadCalls ==
    { [fn |-> "tileReads",
       player |-> [id |-> 1, color |-> "red", boat |-> Hex(0, 0), navPlan |-> plan],
       now |-> t, done |-> FALSE, result |-> NULL] :
        plan \in TileReadPlans, t \in TileReadTimes }

CallFindPath ==
    /\ call # NULL
    /\ call.fn = "findPath"
    /\ ~call.done
    /\ call' = [call EXCEPT !.done = TRUE,
                            !.result = findPath(PathMaps[call.map], call.start,
                                                call.target, call.occupiedTiles)]
    /\ UNCHANGED << now, gameState, sessions, viewers, playerDurations, alarmAt,
                    sent, response, event, requests, uuids, events, sockets >>

CallGenerateMap ==
    /\ call # NULL
    /\ call.fn = "generateMap"
    /\ ~call.done
    /\ call' = [call EXCEPT !.done = TRUE,
                            !.result = generateMap(call.seed, call.radius,
                                                   call.landChance)]
    /\ UNCHANGED << now, gameState, sessions, viewers, playerDurations, alarmAt,
                    sent, response, event, requests, uuids, events, sockets >>

CallTileReads ==
    /\ call # NULL
    /\ call.fn = "tileReads"
    /\ ~call.done
    /\ call' = [call EXCEPT !.done = TRUE,
                            !.result = [current |-> getCurrentTilePosition(call.player,
                                                                          call.now),
                                        next |-> getNextTilePosition(call.player,
                                                                     call.now)]]
    /\ UNCHANGED << now, gameState, sessions, viewers, playerDurations, alarmAt,
                    sent, response, event, requests, uuids, events, sockets >>

InitPure ==
    /\ now = 0
    /\ gameState = NULL
    /\ sessions = << >>
    /\ viewers = {}
    /\ playerDurations = << >>
    /\ alarmAt = NULL
    /\ sent = << >>
    /\ response = 0
    /\ event = Event("none", 0, NULL)
    /\ requests = 0
    /\ uuids = 0
    /\ events = 0
    /\ sockets = {}
    /\ call \in FindPathCalls \cup GenerateMapCalls \cup TileReadCalls

NextPure == CallFindPath \/ CallGenerateMap \/ CallTileReads

SpecPure == InitPure /\ [][NextPure]_vars
(***************************************************************************)
(* Properties.                                                             *)
(***************************************************************************)
Player(gs, id) == gs.players[PlayerIndex(gs, id)]

IsNavMsg(m) == m.msg.type \in {"navPlan", "navEnd"}

\* the navPlan and navEnd messages delivered to socket w, in order
NavMsgsTo(seq, w) == SelectSeq(seq, LAMBDA m : m.to = w /\ IsNavMsg(m))

NoNavMsg(seq) == \A i \in 1..Len(seq) : ~IsNavMsg(seq[i])

IsClick(ev) ==
    /\ ev.op = "message"
    /\ ev.message.string
    /\ ev.message.json # NULL
    /\ ev.message.json.type = "click"

\* this step is a click message of a player of the room
ClickStep ==
    /\ IsClick(event')
    /\ event'.ws \in DOMAIN sessions
    /\ gameState # NULL
    /\ sessions[event'.ws] \in PlayerIds(gameState)

ClickTarget(ev) == Hex(ev.message.json.q, ev.message.json.r)

Moving(p) == p.navPlan # NULL

\* C1: the room never holds more than 2 player records nor more than 2 player
\* sessions.
C1_AtMostTwoPlayers ==
    /\ PlayerCount(gameState) <= 2
    /\ Cardinality(DOMAIN sessions) <= 2

C1_Witness ==
    /\ PlayerCount(gameState) = 2
    /\ Cardinality(DOMAIN sessions) = 2
    /\ event.op = "player"
    /\ response = 403

\* C2: a player upgrade request made while 2 players are present is answered
\* 403 and changes neither the map, the players, the sessions, the viewers,
\* the speeds nor the alarm, and sends nothing.
C2_FullRoomRejects ==
    [][(event'.op = "player" /\ PlayerCount(gameState) >= 2)
         => /\ response' = 403
            /\ sent' = << >>
            /\ UNCHANGED << gameState, sessions, viewers, playerDurations, alarmAt >>]_vars

C2_Witness ==
    /\ event.op = "player"
    /\ response = 403
    /\ sent = << >>
    /\ viewers # {}
    /\ PlayerCount(gameState) = 2

BoatsDistinct(gs) ==
    \A i, j \in 1..Len(gs.players) :
        i # j => gs.players[i].boat # gs.players[j].boat

\* C3: after a tick has processed all players, no two distinct players have
\* the same current tile.
C3_NoSharedTileAfterTick ==
    (event.op = "alarm" /\ gameState # NULL) => BoatsDistinct(gameState)

\* C4: when the last player session closes the game state is discarded, viewers
\* or not; a player who joins a room without players is the only player of its
\* state, as first joiner, on a map generated from the clock after the discard.
C4_TeardownAndFreshState ==
    [][/\ (DOMAIN sessions # {} /\ DOMAIN sessions' = {}) => gameState' = NULL
       /\ (event'.op = "player" /\ response' = 101 /\ DOMAIN sessions = {})
            => /\ gameState'.players =
                    << [id |-> uuids', color |-> "red", boat |-> Hex(0, 0),
                        navPlan |-> NULL] >>
               /\ IF gameState = NULL
                  THEN /\ gameState'.mapSeed = now
                       /\ gameState'.tiles = generateMap(now, MapRadius, LandChance)
                  ELSE /\ gameState.players = << >>
                       /\ gameState'.tiles = gameState.tiles]_vars

C4_Witness ==
    /\ event.op = "player"
    /\ response = 101
    /\ uuids = 2
    /\ viewers # {}
    /\ PlayerIds(gameState) = {2}
    /\ gameState.players[1].color = "red"

\* this step is an upgrade, a message or a close of a viewer socket
ViewerStep ==
    \/ event'.op = "viewer"
    \/ event'.op \in {"message", "close"} /\ event'.ws \in viewers

\* C5, as claimed: no viewer event changes the game state or the speeds.
C5_ViewerNeverChangesState ==
    [][ViewerStep => UNCHANGED << gameState, playerDurations >>]_vars

\* C5, amended: a message or a close of a viewer changes neither the game
\* state nor the speeds; a viewer connecting leaves an existing game state and
\* the speeds unchanged, and in a room without game state it creates one, with
\* a new map and no player.
C5_ViewerChangesNoExistingState ==
    [][ViewerStep
         => /\ UNCHANGED << playerDurations, sessions, alarmAt >>
            /\ IF event'.op = "viewer" /\ gameState = NULL
               THEN /\ gameState' # NULL
                    /\ gameState'.players = << >>
                    /\ gameState'.mapSeed = now
                    /\ gameState'.tiles = generateMap(now, MapRadius, LandChance)
               ELSE gameState' = gameState]_vars

C5_Witness ==
    /\ event.op = "message"
    /\ event.ws \in viewers
    /\ gameState # NULL
    /\ \E i \in 1..Len(gameState.players) : Moving(gameState.players[i])

\* C6: an alarm is pending exactly when at least one player is connected.
C6_AlarmIffPlayers ==
    (alarmAt # NULL) <=> (DOMAIN sessions # {})

C6_Witness ==
    /\ event.op = "close"
    /\ alarmAt = NULL
    /\ uuids > 0
    /\ viewers # {}
    /\ gameState = NULL

\* C7: the player admitted into a room without players is red at (0,0), the
\* one admitted next to one player is blue at (2,0); both have no navigation
\* plan and the default duration of 500 ms per tile.
C7_StartingPlayers ==
    [][(event'.op = "player" /\ response' = 101)
         => LET n == PlayerCount(gameState)
                new == gameState'.players[n + 1]
            IN  /\ Len(gameState'.players) = n + 1
                /\ new.navPlan = NULL
                /\ playerDurations'[new.id] = 500
                /\ n = 0 => (new.color = "red" /\ new.boat = Hex(0, 0))
                /\ n = 1 => (new.color = "blue" /\ new.boat = Hex(2, 0))]_vars

C7_Witness ==
    /\ event.op = "player"
    /\ response = 101
    /\ PlayerCount(gameState) = 2
    /\ gameState.players[2].color = "blue"

\* C8: a click of an Idle player whose path to the target is not empty makes
\* the player Moving on that path, from now, at the player's duration; the
\* position stays, and every session and viewer gets exactly one navPlan, with
\* that path and duration, the position as fromPosition and elapsed 0.
C8_IdleClickStartsPlan ==
    [][ClickStep
         => LET id == sessions[event'.ws]
                p == Player(gameState, id)
                path == findPath(gameState.tiles, p.boat, ClickTarget(event'),
                                 getOccupiedTiles(gameState, id, now))
                expected == [type |-> "navPlan", playerId |-> id, path |-> path,
                             duration |-> playerDurations[id],
                             fromPosition |-> p.boat, elapsed |-> 0]
            IN  (~Moving(p) /\ Len(path) > 0)
                  => /\ Player(gameState', id) =
                          [p EXCEPT !.navPlan = [path |-> path, startTime |-> now,
                                                 duration |-> playerDurations[id]]]
                     /\ \A w \in DOMAIN sessions \cup viewers :
                          NavMsgsTo(sent', w) = << [to |-> w, msg |-> expected] >>]_vars

C8_Witness ==
    /\ IsClick(event)
    /\ event.ws \in DOMAIN sessions
    /\ LET p == Player(gameState, sessions[event.ws])
       IN  /\ Moving(p)
           /\ p.navPlan.startTime = now
           /\ Len(p.navPlan.path) = 2
           /\ p.boat = Hex(0, 0)
    /\ \E i \in 1..Len(sent) : sent[i].msg.type = "navPlan" /\ sent[i].msg.elapsed = 0

\* C9: a click of a Moving player that replaces the plan gives a path that
\* starts with the tile being approached and goes on with the path from there
\* to the target, and a start time that keeps the time already spent on the
\* way to that tile.
C9_RerouteKeepsProgress ==
    [][ClickStep
         => LET id == sessions[event'.ws]
                p == Player(gameState, id)
                q == Player(gameState', id)
            IN  (Moving(p) /\ ~NoNavMsg(sent'))
                  => LET nextTile == getNextTilePosition(p, now)
                         d == q.navPlan.duration
                     IN  /\ Moving(q)
                         /\ q.navPlan.path =
                              << nextTile >> \o
                              findPath(gameState.tiles, nextTile, ClickTarget(event'),
                                       getOccupiedTiles(gameState, id, now))
                         /\ (now - q.navPlan.startTime) % d
                              = (now - p.navPlan.startTime) % d]_vars

C9_Witness ==
    /\ IsClick(event)
    /\ event.ws \in DOMAIN sessions
    /\ \E i \in 1..Len(sent) :
          /\ sent[i].msg.type = "navPlan"
          /\ sent[i].msg.elapsed > 0
          /\ Len(sent[i].msg.path) > 1

\* C10: a click of a Moving player for which no path leads on from the tile
\* being approached, that tile not being the target, changes neither plan nor
\* position and broadcasts no navPlan and no navEnd.
C10_DroppedReroute ==
    [][ClickStep
         => LET id == sessions[event'.ws]
                p == Player(gameState, id)
                nextTile == getNextTilePosition(p, now)
            IN  (/\ Moving(p)
                 /\ nextTile # ClickTarget(event')
                 /\ findPath(gameState.tiles, nextTile, ClickTarget(event'),
                             getOccupiedTiles(gameState, id, now)) = << >>)
                  => /\ gameState' = gameState
                     /\ NoNavMsg(sent')]_vars

C10_Witness ==
    /\ IsClick(event)
    /\ event.ws \in DOMAIN sessions
    /\ NoNavMsg(sent)
    /\ LET id == sessions[event.ws]
           p == Player(gameState, id)
       IN  /\ Moving(p)
           /\ getNextTilePosition(p, now) # ClickTarget(event)
           /\ findPath(gameState.tiles, getNextTilePosition(p, now), ClickTarget(event),
                       getOccupiedTiles(gameState, id, now)) = << >>

\* C11: a click of an Idle player whose path to the target is empty leaves the
\* player Idle and the room unchanged, and no navPlan or navEnd is sent.
C11_IdleClickWithoutPath ==
    [][ClickStep
         => LET id == sessions[event'.ws]
                p == Player(gameState, id)
            IN  (/\ ~Moving(p)
                 /\ findPath(gameState.tiles, p.boat, ClickTarget(event'),
                             getOccupiedTiles(gameState, id, now)) = << >>)
                  => /\ UNCHANGED << gameState, sessions, viewers, playerDurations,
                                     alarmAt >>
                     /\ ~Moving(Player(gameState', id))
                     /\ NoNavMsg(sent')]_vars

\* the Idle player stands next to the occupied tile it clicks
C11_Witness ==
    /\ IsClick(event)
    /\ event.ws \in DOMAIN sessions
    /\ NoNavMsg(sent)
    /\ LET id == sessions[event.ws]
           p == Player(gameState, id)
       IN  /\ ~Moving(p)
           /\ p.boat # ClickTarget(event)
           /\ p.boat # getStartingPosition(PlayerIndex(gameState, id) - 1)
           /\ findPath(gameState.tiles, p.boat, ClickTarget(event),
                       getOccupiedTiles(gameState, id, now)) = << >>

\* the navPlan and navEnd messages about player id delivered to socket w
NavMsgsAbout(seq, w, id) ==
    SelectSeq(seq, LAMBDA m : m.to = w /\ IsNavMsg(m) /\ m.msg.playerId = id)

\* this step is a tick that processes the players
TickStep ==
    /\ event'.op = "alarm"
    /\ gameState # NULL
    /\ DOMAIN sessions # {}

\* the players as player i finds them in a tick: those before it in the
\* player order already processed, those after it not yet
PlayersSeenBy(i) ==
    [gameState EXCEPT !.players =
        [j \in 1..Len(gameState.players) |->
            IF j < i THEN gameState'.players[j] ELSE gameState.players[j]]]

\* the tile player i is on at the tick, by the progress of its plan
TickPosition(p) ==
    LET k == TileIndex(p.navPlan, now)
    IN  IF k > 0 THEN p.navPlan.path[k] ELSE p.boat

\* player i is on its way at this tick and another player's current tile is
\* the tile it is about to enter
BlockedAtTick(i) ==
    LET p == gameState.players[i]
        k == TileIndex(p.navPlan, now)
    IN  /\ Moving(p)
        /\ k >= 0
        /\ k < Len(p.navPlan.path)
        /\ \E j \in 1..Len(gameState.players) :
              /\ j # i
              /\ getCurrentTilePosition(PlayersSeenBy(i).players[j], now)
                   = p.navPlan.path[k + 1]

\* C12: a tick at or after startTime + n*d of a Moving player's plan (path of
\* n tiles, d per tile) puts the player on the last tile of the path, clears
\* the plan and broadcasts exactly one navEnd with that position; an earlier
\* tick that does not find the player blocked leaves the plan in place.
C12_ArrivalEndsPlan ==
    [][TickStep
         => \A i \in 1..Len(gameState.players) :
              LET p == gameState.players[i]
                  q == gameState'.players[i]
              IN  Moving(p)
                    => LET n == Len(p.navPlan.path)
                           last == p.navPlan.path[n]
                       IN  IF now >= p.navPlan.startTime + n * p.navPlan.duration
                           THEN /\ ~Moving(q)
                                /\ q.boat = last
                                /\ \A w \in DOMAIN sessions \cup viewers :
                                     NavMsgsAbout(sent', w, p.id) =
                                       << [to |-> w,
                                           msg |-> [type |-> "navEnd", playerId |-> p.id,
                                                    position |-> last]] >>
                           ELSE ~BlockedAtTick(i) => q.navPlan = p.navPlan]_vars

C12_Witness ==
    /\ event.op = "alarm"
    /\ now = 2 * DEFAULT_DURATION
    /\ \E i \in 1..Len(gameState.players) :
          /\ ~Moving(gameState.players[i])
          /\ gameState.players[i].boat = Hex(2, -2)
          /\ \E k \in 1..Len(sent) :
                /\ sent[k].msg.type = "navEnd"
                /\ sent[k].msg.playerId = gameState.players[i].id
                /\ sent[k].msg.position = Hex(2, -2)

\* C13: a tick that finds a Moving player's next tile to be the current tile
\* of another player recomputes the path from the player's current position
\* to the last tile of its plan around the occupied tiles; a non-empty path
\* replaces the plan, starting now, and is broadcast as a navPlan with elapsed
\* 0 from the current position; an empty one clears the plan and a navEnd
\* with the current position is broadcast.
C13_BlockedReroutesOrStops ==
    [][TickStep
         => \A i \in 1..Len(gameState.players) :
              BlockedAtTick(i)
                => LET p == gameState.players[i]
                       q == gameState'.players[i]
                       pos == TickPosition(p)
                       n == Len(p.navPlan.path)
                       newPath == findPath(gameState.tiles, pos, p.navPlan.path[n],
                                           getOccupiedTiles(PlayersSeenBy(i), p.id, now))
                       expected ==
                           IF newPath # << >>
                           THEN [type |-> "navPlan", playerId |-> p.id, path |-> newPath,
                                 duration |-> playerDurations[p.id],
                                 fromPosition |-> pos, elapsed |-> 0]
                           ELSE [type |-> "navEnd", playerId |-> p.id, position |-> pos]
                   IN  /\ q.boat = pos
                       /\ q.navPlan = IF newPath # << >>
                                      THEN [path |-> newPath, startTime |-> now,
                                            duration |-> playerDurations[p.id]]
                                      ELSE NULL
                       /\ \A w \in DOMAIN sessions \cup viewers :
                            NavMsgsAbout(sent', w, p.id) = << [to |-> w, msg |-> expected] >>]_vars

\* a tick has replaced the plan of a blocked player by a path around the
\* other player
C13_Witness ==
    /\ event.op = "alarm"
    /\ \E i \in 1..Len(gameState.players) :
          LET q == gameState.players[i]
          IN  /\ Moving(q)
              /\ q.navPlan.startTime = now
              /\ now > 0
              /\ \E k \in 1..Len(sent) :
                    /\ sent[k].msg.type = "navPlan"
                    /\ sent[k].msg.playerId = q.id
                    /\ sent[k].msg.elapsed = 0
                    /\ sent[k].msg.fromPosition = q.boat

(***************************************************************************)
(* findPath and generateMap as functions.                                  *)
(***************************************************************************)
Walkable(tiles, occupiedTiles, h) ==
    /\ KeyOf(h) \in DOMAIN tiles
    /\ tiles[KeyOf(h)] = "water"
    /\ KeyOf(h) \notin occupiedTiles

NeighborSet(h) == { getNeighbors(h)[i] : i \in 1..6 }

\* the walkable tiles one step from the tiles of `frontier` and not in `seen`
NextLayer(tiles, occupiedTiles, frontier, seen) ==
    { n \in UNION { NeighborSet(h) : h \in frontier } :
        Walkable(tiles, occupiedTiles, n) /\ n \notin seen }

\* the least number of steps over walkable tiles from the tiles of `frontier`
\* (d steps from the start) to the target; -1 if there is no way
RECURSIVE StepsTo(_, _, _, _, _, _)
StepsTo(tiles, occupiedTiles, frontier, seen, target, d) ==
    IF target \in frontier THEN d
    ELSE IF frontier = {} THEN -1
    ELSE LET next == NextLayer(tiles, occupiedTiles, frontier, seen)
         IN  StepsTo(tiles, occupiedTiles, next, seen \cup next, target, d + 1)

\* the start and every tile that steps over walkable tiles lead to
RECURSIVE Reachable(_, _, _, _)
Reachable(tiles, occupiedTiles, frontier, seen) ==
    IF frontier = {} THEN seen
    ELSE LET next == NextLayer(tiles, occupiedTiles, frontier, seen)
         IN  Reachable(tiles, occupiedTiles, next, seen \cup next)

\* path is a walk from start: each tile walkable and next to the one before
IsWalk(tiles, occupiedTiles, start, path) ==
    \A i \in 1..Len(path) :
        /\ Walkable(tiles, occupiedTiles, path[i])
        /\ hexDistance(IF i = 1 THEN start ELSE path[i - 1], path[i]) = 1

FindPathDone == call # NULL /\ call.fn = "findPath" /\ call.done

CallTiles == PathMaps[call.map]

CallSteps ==
    StepsTo(CallTiles, call.occupiedTiles, {call.start}, {call.start}, call.target, 0)

\* the target is walkable and there is a way to it
TargetReachable ==
    /\ Walkable(CallTiles, call.occupiedTiles, call.target)
    /\ CallSteps >= 0

NoObstacle ==
    /\ call.occupiedTiles = {}
    /\ \A k \in DOMAIN CallTiles : CallTiles[k] = "water"

\* C14: for a target that is water, not occupied and reachable from the start
\* over unoccupied water, findPath returns a walk of the least possible number
\* of steps that ends on the target; on a field without land and occupied
\* tiles that number is the hex distance from start to target.
C14_ShortestPathToTarget ==
    (FindPathDone /\ TargetReachable)
      => /\ Len(call.result) = CallSteps
         /\ IsWalk(CallTiles, call.occupiedTiles, call.start, call.result)
         /\ call.start # call.target => call.result[Len(call.result)] = call.target
         /\ NoObstacle => Len(call.result) = hexDistance(call.start, call.target)

\* a path that has to go around land
C14_Witness ==
    /\ FindPathDone
    /\ TargetReachable
    /\ Len(call.result) > hexDistance(call.start, call.target) + 1
    /\ call.result[Len(call.result)] = call.target

\* C15: for a target that is land, occupied, off the field or out of reach,
\* findPath returns a walk that ends on a tile as close to the target as any
\* tile within reach of the start, the start included; it is the empty path
\* when the start is such a tile.
C15_ClosestApproach ==
    (FindPathDone /\ ~TargetReachable)
      => LET R == Reachable(CallTiles, call.occupiedTiles, {call.start}, {call.start})
             end == IF call.result = << >> THEN call.start
                    ELSE call.result[Len(call.result)]
         IN  /\ end \in R
             /\ \A h \in R : hexDistance(end, call.target) <= hexDistance(h, call.target)
             /\ IsWalk(CallTiles, call.occupiedTiles, call.start, call.result)
             /\ (\A h \in R : hexDistance(call.start, call.target)
                                <= hexDistance(h, call.target))
                  => call.result = << >>

\* a path of several steps toward a land tile that stops next to it
C15_Witness ==
    /\ FindPathDone
    /\ ~TargetReachable
    /\ KeyOf(call.target) \in DOMAIN CallTiles
    /\ CallTiles[KeyOf(call.target)] = "land"
    /\ Len(call.result) >= 2
    /\ hexDistance(call.result[Len(call.result)], call.target) = 1

\* C16: findPath from a coordinate to itself returns the empty path, whatever
\* the map and the occupied tiles, also when the coordinate is land, occupied
\* or off the field.
C16_PathToSelfIsEmpty ==
    (FindPathDone /\ call.start = call.target) => call.result = << >>

\* the call from the occupied tile (1,0) to itself
C16_Witness ==
    /\ FindPathDone
    /\ call.start = call.target
    /\ KeyOf(call.start) \in call.occupiedTiles
    /\ call.result = << >>

GenerateMapDone == call # NULL /\ call.fn = "generateMap" /\ call.done

\* C18: whatever the seed, the radius and the land chance, every generated
\* tile within hex distance 2 of the origin is water; so are both starting
\* positions, (0,0) and (2,0), on every map that reaches them.
C18_CenterIsWater ==
    GenerateMapDone
      => /\ \A k \in DOMAIN call.result :
              hexDistance(Hex(0, 0), Hex(k[1], k[2])) <= 2 => call.result[k] = "water"
         /\ \A i \in 0..(MAX_PLAYERS - 1) :
              LET k == KeyOf(getStartingPosition(i))
              IN  /\ hexDistance(Hex(0, 0), getStartingPosition(i)) <= call.radius
                       => k \in DOMAIN call.result
                  /\ k \in DOMAIN call.result => call.result[k] = "water"

\* a map on which every tile beyond distance 2 is land
C18_Witness ==
    /\ GenerateMapDone
    /\ call.landChance = FullChance
    /\ call.radius = MapRadius
    /\ call.result[getKey(2, 0)] = "water"
    /\ \A k \in DOMAIN call.result :
          hexDistance(Hex(0, 0), Hex(k[1], k[2])) > 2 => call.result[k] = "land"

(***************************************************************************)
(* Client messages other than click.                                       *)
(***************************************************************************)
\* this step is a message of a player of the room
PlayerMessageStep ==
    /\ event'.op = "message"
    /\ event'.ws \in DOMAIN sessions
    /\ gameState # NULL
    /\ sessions[event'.ws] \in PlayerIds(gameState)

IsSetSpeed(m) == m.string /\ m.json # NULL /\ m.json.type = "setSpeed"

\* C19: a setSpeed with duration d sets the sender's duration per tile to
\* max(d, 50) and leaves the other players' durations alone, and every plan
\* made for a player carries that player's duration.
C19_SetSpeedSetsDuration ==
    [][/\ (PlayerMessageStep /\ IsSetSpeed(event'.message))
            => LET id == sessions[event'.ws]
               IN  /\ playerDurations'[id] = Max(event'.message.json.duration, 50)
                   /\ \A o \in DOMAIN playerDurations \ {id} :
                        playerDurations'[o] = playerDurations[o]
       /\ gameState' # NULL
            => \A i \in 1..Len(gameState'.players) :
                 LET q == gameState'.players[i]
                 IN  (/\ Moving(q)
                      /\ q.id \in PlayerIds(gameState)
                      /\ q.navPlan # Player(gameState, q.id).navPlan)
                       => q.navPlan.duration = playerDurations'[q.id]]_vars

\* not a string, not JSON, or of a type that is neither click nor setSpeed
IsMalformed(m) ==
    IF ~m.string THEN TRUE
    ELSE IF m.json = NULL THEN TRUE
    ELSE m.json.type \notin {"click", "setSpeed"}

\* C20: a message of a player that is not a string, not JSON or of an unknown
\* type changes nothing in the room, and nothing is sent to a player session.
C20_MalformedIgnored ==
    [][(event'.op = "message" /\ event'.ws \in DOMAIN sessions
          /\ IsMalformed(event'.message))
         => /\ UNCHANGED << gameState, sessions, viewers, playerDurations, alarmAt >>
            /\ \A k \in 1..Len(sent') : sent'[k].to \notin DOMAIN sessions]_vars

\* a message of unknown type arrived while a viewer watched a player
C20_Witness ==
    /\ event.op = "message"
    /\ event.ws \in DOMAIN sessions
    /\ event.message.string
    /\ event.message.json # NULL
    /\ event.message.json.type = "move"
    /\ viewers # {}
    /\ sent # << >>

\* the messages of this type delivered to socket w, in order
MsgsTo(seq, w, type) == SelectSeq(seq, LAMBDA m : m.to = w /\ m.msg.type = type)

\* the last step was an upgrade request that the room accepted
Accepted == event.op \in {"player", "viewer"} /\ response = 101

\* C21: an accepted connection sends exactly one init, to the new socket, with
\* the game state (the new player in it) and the new player's id, or null for
\* a viewer; a player join sends every other player session and every viewer
\* exactly one playerJoined with the new player's id, color and position, and
\* none to the joiner; a viewer join sends no playerJoined.
C21_InitAndPlayerJoined ==
    Accepted =>
        LET new == requests
            joiner == event.op = "player"
            p == Player(gameState, uuids)
            joined == [type |-> "playerJoined", playerId |-> uuids,
                       color |-> p.color, boat |-> p.boat]
        IN  /\ SelectSeq(sent, LAMBDA m : m.msg.type = "init")
                 = << [to |-> new,
                       msg |-> [type |-> "init", state |-> gameState,
                                playerId |-> IF joiner THEN uuids ELSE NULL]] >>
            /\ joiner => /\ sessions[new] = uuids
                         /\ uuids \in PlayerIds(gameState)
            /\ MsgsTo(sent, new, "playerJoined") = << >>
            /\ \A w \in (DOMAIN sessions \cup viewers) \ {new} :
                  MsgsTo(sent, w, "playerJoined")
                      = IF joiner THEN << [to |-> w, msg |-> joined] >> ELSE << >>

\* a second player has joined a room that has a viewer
C21_Witness ==
    /\ Accepted
    /\ event.op = "player"
    /\ PlayerCount(gameState) = 2
    /\ viewers # {}
    /\ \E i \in 1..Len(sent) : sent[i].msg.type = "playerJoined"

\* C22: closing a player's connection removes the player's record, session
\* and speed entry in that step and sends playerLeft with its id once to every
\* remaining player session and viewer; every navPlan and navEnd names a
\* player of the room, every session belongs to one, and a player record is
\* only ever added under an id that was never used, so nothing names or acts
\* on the player that left.
C22_CloseRemovesPlayer ==
    [][ /\ (event'.op = "close" /\ event'.ws \in DOMAIN sessions) =>
              LET ws == event'.ws
                  id == sessions[ws]
                  left == [type |-> "playerLeft", playerId |-> id]
              IN  /\ id \notin PlayerIds(gameState')
                  /\ ws \notin DOMAIN sessions'
                  /\ id \notin DOMAIN playerDurations'
                  /\ MsgsTo(sent', ws, "playerLeft") = << >>
                  /\ \A w \in DOMAIN sessions' \cup viewers' :
                        MsgsTo(sent', w, "playerLeft") = << [to |-> w, msg |-> left] >>
        /\ \A k \in 1..Len(sent') :
              IsNavMsg(sent'[k]) => sent'[k].msg.playerId \in PlayerIds(gameState')
        /\ \A w \in DOMAIN sessions' : sessions'[w] \in PlayerIds(gameState')
        /\ DOMAIN playerDurations' = PlayerIds(gameState')
        /\ \A id \in PlayerIds(gameState) : id <= uuids
        /\ \A id \in PlayerIds(gameState') \ PlayerIds(gameState) : id > uuids
      ]_vars

\* one of two players has left a room that has a viewer
C22_Witness ==
    /\ event.op = "close"
    /\ PlayerCount(gameState) = 1
    /\ viewers # {}
    /\ uuids = 2
    /\ \E i \in 1..Len(sent) : sent[i].msg.type = "playerLeft"

\* message k of the last step has its debug copy, with this direction,
\* delivered to viewer v
MirroredTo(v, direction, payload) ==
    \E j \in 1..Len(sent) :
        /\ sent[j].to = v
        /\ sent[j].msg.type = "debug"
        /\ sent[j].msg.direction = direction
        /\ sent[j].msg.payload = payload

\* C23: every message a player sends and every server message sent to a
\* session (init, playerJoined, playerLeft, navPlan, navEnd) reaches every
\* attached viewer as a debug message with direction in or out and the
\* message as payload; no debug message goes to a player session.
C23_EveryMessageMirrored ==
    /\ \A k \in 1..Len(sent) :
          sent[k].msg.type # "debug" =>
              \A v \in viewers : MirroredTo(v, "out", sent[k].msg)
    /\ (event.op = "message" /\ event.ws \in DOMAIN sessions) =>
          \A v \in viewers :
              \E j \in 1..Len(sent) :
                  /\ sent[j].to = v
                  /\ sent[j].msg.type = "debug"
                  /\ sent[j].msg.direction = "in"
                  /\ sent[j].msg.payload.msg = event.message.json
    /\ \A k \in 1..Len(sent) :
          sent[k].msg.type = "debug" => sent[k].to \notin DOMAIN sessions

(***************************************************************************)
(* The tile reads as functions.                                            *)
(***************************************************************************)
TileReadsDone == call # NULL /\ call.fn = "tileReads" /\ call.done

\* floor((t - startTime) / duration), by the definition of the floor
FloorIndex(navPlan, t) ==
    LET elapsed == t - navPlan.startTime
        d == navPlan.duration
    IN  CHOOSE k \in (-Abs(elapsed) - 1)..(Abs(elapsed) + 1) :
            k * d <= elapsed /\ elapsed < (k + 1) * d

\* C24 as the spec states it: read at elapsed = 0, the current tile and the
\* next tile of a Moving player are both the boat position held from before
\* the navigation.
C24_BothReadsGiveBoatAtStart ==
    (TileReadsDone /\ call.now = call.player.navPlan.startTime) =>
        /\ call.result.current = call.player.boat
        /\ call.result.next = call.player.boat

\* C24, amended: read at elapsed = 0, the current tile of a Moving player is
\* the boat position held from before the navigation and the next tile is the
\* first tile of the plan's path.
C24_ReadsAtStart ==
    (TileReadsDone /\ call.now = call.player.navPlan.startTime) =>
        /\ call.result.current = call.player.boat
        /\ call.result.next = call.player.navPlan.path[1]

\* a plan of two tiles or more has been read at its start time
C24_Witness ==
    /\ TileReadsDone
    /\ call.now = call.player.navPlan.startTime
    /\ Len(call.player.navPlan.path) >= 2
    /\ call.result.next # call.player.boat

\* C25: with len the length of the path and i = floor((now - startTime) /
\* duration), the current tile is the stored boat position when i <= 0, the
\* i-th tile of the path when 0 < i < len and the last tile when i >= len;
\* the next tile is the first tile when i < 0, the (i+1)-th tile when
\* 0 <= i < len and the last tile when i >= len; for every elapsed time of
\* duration * len or more both reads are the last tile of the path.
C25_TileReadCases ==
    TileReadsDone =>
        LET plan == call.player.navPlan
            path == plan.path
            len == Len(path)
            i == FloorIndex(plan, call.now)
        IN  /\ call.result.current =
                  IF i <= 0 THEN call.player.boat
                  ELSE IF i < len THEN path[i]
                  ELSE path[len]
            /\ call.result.next =
                  IF i < 0 THEN path[1]
                  ELSE IF i < len THEN path[i + 1]
                  ELSE path[len]
            /\ call.now - plan.startTime >= plan.duration * len =>
                  /\ call.result.current = path[len]
                  /\ call.result.next = path[len]

\* a plan of three tiles has been read while the boat is between its first
\* and its second tile
C25_Witness ==
    /\ TileReadsDone
    /\ Len(call.player.navPlan.path) = 3
    /\ FloorIndex(call.player.navPlan, call.now) = 1
    /\ call.result.current = call.player.navPlan.path[1]
    /\ call.result.next = call.player.navPlan.path[2]

\* C26: no connection is both a player session and a viewer: the keys of
\* sessions and the set viewers are disjoint.
C26_SessionsViewersDisjoint == DOMAIN sessions \cap viewers = {}

\* two player sessions and a viewer are open, the viewer having connected
\* after a player
C26_Witness ==
    /\ Cardinality(DOMAIN sessions) = 2
    /\ viewers # {}
    /\ \E w \in DOMAIN sessions : \E v \in viewers : w < v

\* C29: a non-empty path returned by findPath is a walk: it does not contain
\* the start, its first tile is a neighbor of the start, each tile is a
\* neighbor of the one before it, no tile occurs twice, and every tile is a
\* water tile of the map that is not in the occupied set.
C29_PathIsValidWalk ==
    (FindPathDone /\ call.result # << >>) =>
        LET path == call.result
        IN  /\ \A i \in 1..Len(path) : path[i] # call.start
            /\ path[1] \in NeighborSet(call.start)
            /\ \A i \in 2..Len(path) : path[i] \in NeighborSet(path[i - 1])
            /\ \A i, j \in 1..Len(path) : i # j => path[i] # path[j]
            /\ \A i \in 1..Len(path) :
                  /\ KeyOf(path[i]) \in DOMAIN CallTiles
                  /\ CallTiles[KeyOf(path[i])] = "water"
                  /\ KeyOf(path[i]) \notin call.occupiedTiles

\* a path of three tiles or more that goes around an occupied tile or a land
\* tile: it is longer than the hex distance to its end
C29_Witness ==
    /\ FindPathDone
    /\ Len(call.result) >= 3
    /\ call.occupiedTiles # {}
    /\ Len(call.result) > hexDistance(call.start, call.result[Len(call.result)])

\* the last step was a click that gave its sender a new plan (the plan is
\* broadcast as navPlan)
ClickMadePlan ==
    /\ IsClick(event)
    /\ event.ws \in DOMAIN sessions
    /\ \E k \in 1..Len(sent) :
          /\ sent[k].msg.type = "navPlan"
          /\ sent[k].msg.playerId = sessions[event.ws]

\* C30: when a click creates or replaces a player's plan, no tile of the new
\* path is the current tile or the next tile of another player, for a click
\* from Idle and for a reroute whose path begins with the clicker's own next
\* tile alike.
C30_NewPlanAvoidsOthers ==
    ClickMadePlan =>
        LET id == sessions[event.ws]
            path == Player(gameState, id).navPlan.path
        IN  \A k \in 1..Len(path) :
                \A j \in 1..Len(gameState.players) :
                    LET o == gameState.players[j]
                    IN  o.id # id =>
                            /\ path[k] # getCurrentTilePosition(o, now)
                            /\ Moving(o) => path[k] # getNextTilePosition(o, now)

\* C28: running the tick a second time at the instant of a tick changes no
\* player position or plan and broadcasts nothing; a tick of a room without
\* game state or without players changes nothing, broadcasts nothing and sets
\* no new alarm.
C28_TickIdempotent ==
    [][ event'.op = "alarm" =>
          IF gameState = NULL \/ DOMAIN sessions = {}
          THEN /\ gameState' = gameState
               /\ sent' = << >>
               /\ alarmAt' = NULL
               /\ UNCHANGED << sessions, viewers, playerDurations >>
          ELSE LET again == UpdateAll(gameState', playerDurations', sessions',
                                      viewers', 1, now')
               IN  /\ again.gs = gameState'
                   /\ again.out = << >>
      ]_vars

\* a tick has rerouted a blocked player
C28_Witness ==
    /\ event.op = "alarm"
    /\ \E k \in 1..Len(sent) : sent[k].msg.type = "navPlan"

\* C27: with the ticks firing and the clock running, and no more than
\* LiveClicks clicks arriving, every player that is Moving becomes Idle:
\* the reroutes of two players that block each other do not go on forever.
C27_MovingLeadsToIdle ==
    \A i \in 1..MAX_PLAYERS :
        (gameState.players[i].navPlan # NULL) ~> (gameState.players[i].navPlan = NULL)

\* C31: whenever two players are in the room their colors differ (one red,
\* one blue), also after one player has left and another has joined while the
\* other stayed.
C31_TwoPlayersTwoColors ==
    PlayerCount(gameState) = 2 =>
        { gameState.players[1].color, gameState.players[2].color } = {"red", "blue"}

\* the last step admitted a player to a room that held other players
JoinedOthers ==
    /\ Accepted
    /\ event.op = "player"
    /\ PlayerCount(gameState) >= 2

\* C32: the starting position given to an admitted player is not the current
\* tile of a player already in the room, whatever joins, moves and leaves
\* came before.
C32_StartTileIsFree ==
    JoinedOthers =>
        \A j \in 1..Len(gameState.players) :
            LET o == gameState.players[j]
            IN  o.id # uuids =>
                    getCurrentTilePosition(o, now) # Player(gameState, uuids).boat

\* the last step sent socket w an init with the room's current map
InitWithCurrentMap(w) ==
    \E k \in 1..Len(sent) :
        /\ sent[k].to = w
        /\ sent[k].msg.type = "init"
        /\ sent[k].msg.state.mapSeed = gameState.mapSeed
        /\ sent[k].msg.state.tiles = gameState.tiles

\* C33: whenever room state exists, every attached session has received an
\* init whose map seed and tiles are those of the room's current map. In the
\* viewer runs socket 1 has received the init of the map of seed 0, and an
\* init is only ever sent to the socket that connects (C21); so for as long
\* as socket 1 is attached and room state exists, the room's map is the map
\* of seed 0, or the last step has sent socket 1 an init with the current map.
C33_SessionsHoldCurrentMap ==
    (1 \in viewers /\ gameState # NULL) =>
        \/ /\ gameState.mapSeed = 0
           /\ gameState.tiles = MapOfSeed[0]
        \/ InitWithCurrentMap(1)

\* C34: the player ids the sessions refer to, the ids of the player records
\* (none when there is no room state) and the ids of the speed table are one
\* and the same set, and each of these ids has exactly one session.
C34_IdsAgree ==
    LET sessionIds == { sessions[w] : w \in DOMAIN sessions }
    IN  /\ sessionIds = PlayerIds(gameState)
        /\ PlayerIds(gameState) = DOMAIN playerDurations
        /\ \A id \in sessionIds :
              Cardinality({ w \in DOMAIN sessions : sessions[w] = id }) = 1
        /\ gameState # NULL => Cardinality(PlayerIds(gameState)) = Len(gameState.players)

\* a player has left and another has joined while a third stayed
C34_Witness ==
    /\ PlayerIds(gameState) = {2, 3}
    /\ DOMAIN playerDurations = {2, 3}
    /\ Cardinality(DOMAIN sessions) = 2

\* h is a water tile of the room's current map
IsWater(h) ==
    /\ KeyOf(h) \in DOMAIN gameState.tiles
    /\ gameState.tiles[KeyOf(h)] = "water"

\* C35: every player's position (the stored boat and the tile its plan puts
\* it on) is a water tile of the current map, and every stored plan has a
\* path that is not empty, made of water tiles of the current map, each a
\* hex neighbor of the one before it, and a duration of 50 ms or more.
C35_PositionsAndPlansWellFormed ==
    gameState # NULL =>
        \A i \in 1..Len(gameState.players) :
            LET p == gameState.players[i]
            IN  /\ IsWater(p.boat)
                /\ IsWater(getCurrentTilePosition(p, now))
                /\ Moving(p) =>
                      LET path == p.navPlan.path
                      IN  /\ Len(path) >= 1
                          /\ \A k \in 1..Len(path) : IsWater(path[k])
                          /\ \A k \in 2..Len(path) : hexDistance(path[k - 1], path[k]) = 1
                          /\ p.navPlan.duration >= 50

\* a player that has clicked a land tile is under way on a plan replaced on
\* the way, whose last tile is next to that land tile
C35_Witness ==
    /\ IsClick(event)
    /\ ~IsWater(ClickTarget(event))
    /\ \E i \in 1..Len(gameState.players) :
          LET p == gameState.players[i]
          IN  /\ p.id = sessions[event.ws]
              /\ Moving(p)
              /\ p.boat # getStartingPosition(i - 1)
              /\ hexDistance(p.navPlan.path[Len(p.navPlan.path)],
                             ClickTarget(event)) = 1

====
